---- MODULE Spec2Model ----
(***************************************************************************)
(* Model of the two ThorCam example scripts:                               *)
(*   opencv_mp4_writer_example.py  (export: NUMBER_OF_IMAGES frames to an  *)
(*                                  MP4 file)                              *)
(*   video.py                      (live normalised-intensity display)     *)
(* Both are straight-line programs over the camera SDK.  The state is the  *)
(* scripts' variables, the position in the script (pc), the exception in   *)
(* flight, and histories of the calls made on the collaborators.           *)
(***************************************************************************)
EXTENDS Integers, Sequences, FiniteSets, TLC

VARIABLES
    script,                  \* which of the two scripts runs
    cameras,                 \* result of sdk.discover_available_cameras()
    camera,                  \* state of the camera handle
    pc,                      \* position in the script
    calls,                   \* history: calls made on the collaborators, in order
    out,                     \* history: lines printed
    error,                   \* the exception in flight ("None" when there is none)
    raised,                  \* history: every exception raised, in order
    interrupts,              \* number of KeyboardInterrupts delivered so far
    polls,                   \* number of get_pending_frame_or_null calls issued
    delivered,               \* number of those that returned a frame
    frame,                   \* export: frame; video: frame (result of get_camera_frame)
    first_frame,             \* video: first_frame
    frames_counted,          \* export: frames_counted
    image_data,              \* export: image_data
    is_color_camera,         \* export: is_color_camera
    mono_to_color_sdk,       \* export: mono_to_color_sdk
    mono_to_color_processor, \* export: mono_to_color_processor
    sink,                    \* export: images given to mp4_video.write, in order
    shown                    \* video: images given to the display, in order

vars == <<script, cameras, camera, pc, calls, out, error, raised, interrupts,
          polls, delivered, frame, first_frame, frames_counted, image_data,
          is_color_camera, mono_to_color_sdk, mono_to_color_processor,
          sink, shown>>

----------------------------------------------------------------------------
(* Program constants and bounds of the model *)

NUMBER_OF_IMAGES == 200

\* video.py polls forever; the model stops issuing polls after MaxPolls
MaxPolls == 4

\* number of KeyboardInterrupts the user may send during one run
MaxInterrupts == 1

BitDepths == {10, 12, 16}

SensorTypes == {"BAYER", "MONOCHROME"}

----------------------------------------------------------------------------
(* Pure functions *)

RECURSIVE Pow2(_)
Pow2(n) == IF n = 0 THEN 1 ELSE 2 * Pow2(n - 1)

\* a shift that rounds to nearest instead of truncating
ShiftRight_rounding(v, n) ==
    IF n = 0 THEN v ELSE (v + Pow2(n - 1)) \div Pow2(n)

\* numpy's >> on an unsigned sample: n times drop the low-order bit
RECURSIVE ShiftRight(_, _)
ShiftRight(v, n) == IF n = 0 THEN v ELSE ShiftRight(v \div 2, n - 1)

SeqMin(s) == CHOOSE m \in {s[i] : i \in 1..Len(s)} : \A i \in 1..Len(s) : m <= s[i]
SeqMax(s) == CHOOSE m \in {s[i] : i \in 1..Len(s)} : \A i \in 1..Len(s) : m >= s[i]

\* cvRound: round to nearest, ties to even, of num/den (den > 0, num >= 0)
RoundHalfEven(num, den) ==
    LET q == num \div den
        r == num % den
    IN  IF 2 * r > den THEN q + 1
        ELSE IF 2 * r = den THEN q + (q % 2)
        ELSE q

\* cv2.normalize(image, None, 0, 255, cv2.NORM_MINMAX): the observed range is
\* mapped linearly onto 0..255; a flat image maps to 0
normalize_image(image) ==
    LET lo == SeqMin(image)
        hi == SeqMax(image)
    IN  [i \in 1..Len(image) |->
            IF hi = lo THEN 0 ELSE RoundHalfEven((image[i] - lo) * 255, hi - lo)]

----------------------------------------------------------------------------
(* Values *)

\* a test scene of three samples for a sensor of bit depth b: black, the
\* largest value whose 8 high bits are zero, and white; or a flat grey
Scenes(b) == { <<0, Pow2(b - 8) - 1, Pow2(b) - 1>>,
               <<Pow2(b - 1), Pow2(b - 1), Pow2(b - 1)>> }

CameraModels ==
    UNION { { [camera_sensor_type |-> s, bit_depth |-> b, scene |-> sc] :
                s \in SensorTypes, sc \in Scenes(b) } : b \in BitDepths }

\* None, for a raw frame and for a processed image (frame_count 0 is no frame)
NoFrame == [frame_count |-> 0, image_buffer |-> <<>>]
NoImage == [frame_count |-> 0, op |-> "None", channels |-> 0, pixels |-> <<>>]
IsNone(f) == f.frame_count = 0

\* what one camera.get_pending_frame_or_null() can return: null after the
\* poll timeout, or the next frame of the scene
PollResults ==
    { NoFrame, [frame_count |-> delivered + 1, image_buffer |-> cameras[1].scene] }

\* get_camera_frame's result for a poll result f
get_camera_frame(f) ==
    IF ~IsNone(f)
    THEN [frame_count |-> f.frame_count, op |-> "normalize", channels |-> 1,
          pixels |-> normalize_image(f.image_buffer)]
    ELSE NoImage

\* mono_to_color_processor.transform_to_24 + reshape(h, w, 3): the transform
\* itself belongs to the colour SDK; the model keeps the raw samples and
\* records that they went through it
TransformTo24(f) ==
    [frame_count |-> f.frame_count, op |-> "transform_to_24", channels |-> 3,
     pixels |-> f.image_buffer]

\* image_data >> (bit_depth - 8)
ScaleTo8bpp(f, bit_depth) ==
    [frame_count |-> f.frame_count, op |-> "shift", channels |-> 1,
     pixels |-> [i \in 1..Len(f.image_buffer) |->
                    ShiftRight(f.image_buffer[i], bit_depth - 8)]]

----------------------------------------------------------------------------
(* Initial state: the script starts with the SDK context about to be opened *)

Init ==
    /\ script \in {"export", "video"}
    /\ cameras \in {<<>>} \cup { <<c>> : c \in CameraModels }
    /\ camera = "None"
    /\ pc = "discover"
    /\ calls = <<>>
    /\ out = <<>>
    /\ error = "None"
    /\ raised = <<>>
    /\ interrupts = 0
    /\ polls = 0
    /\ delivered = 0
    /\ frame = NoFrame
    /\ first_frame = NoImage
    /\ frames_counted = 0
    /\ image_data = NoImage
    /\ is_color_camera = FALSE
    /\ mono_to_color_sdk = "None"
    /\ mono_to_color_processor = "None"
    /\ sink = <<>>
    /\ shown = <<>>

\* raise exception e and continue at pc value next
Raise(e, next) ==
    /\ error' = e
    /\ raised' = Append(raised, e)
    /\ pc' = next

NoRaise(next) ==
    /\ pc' = next
    /\ UNCHANGED <<error, raised>>

exportVars == <<frames_counted, image_data, is_color_camera, mono_to_color_sdk,
                mono_to_color_processor, sink>>
videoVars == <<first_frame, shown>>
pollVars == <<polls, delivered, frame>>

----------------------------------------------------------------------------
(* opencv_mp4_writer_example.py *)

\* lines 37-40: open the SDK, discover, print when no camera is found
EDiscover ==
    /\ script = "export" /\ pc = "discover"
    /\ calls' = calls \o <<"TLCameraSDK", "sdk.discover_available_cameras">>
    /\ out' = IF Len(cameras) = 0
              THEN Append(out, "Error: no cameras detected!") ELSE out
    /\ NoRaise("e_open")
    /\ UNCHANGED <<script, cameras, camera, interrupts, pollVars, exportVars, videoVars>>

\* line 42: sdk.open_camera(cameras[0]); cameras[0] of an empty list is an
\* IndexError, raised before open_camera is called
EOpen ==
    /\ script = "export" /\ pc = "e_open"
    /\ IF Len(cameras) = 0
       THEN /\ Raise("IndexError", "unwind")
            /\ UNCHANGED <<calls, camera>>
       ELSE /\ calls' = Append(calls, "sdk.open_camera")
            /\ camera' = "open"
            /\ NoRaise("e_arm")
    /\ UNCHANGED <<script, cameras, out, interrupts, pollVars, exportVars, videoVars>>

\* lines 44-46
EArm ==
    /\ script = "export" /\ pc = "e_arm"
    /\ calls' = Append(calls, "camera.arm")
    /\ camera' = "armed"
    /\ NoRaise("e_setup")
    /\ UNCHANGED <<script, cameras, out, interrupts, pollVars, exportVars, videoVars>>

\* line 57
IsColorCamera_always == TRUE

IsColorCamera == cameras[1].camera_sensor_type = "BAYER"

\* lines 49-68: read the properties; for a colour camera construct the colour
\* SDK and the processor (the construction may raise)
ESetup ==
    /\ script = "export" /\ pc = "e_setup"
    /\ is_color_camera' = IsColorCamera
    /\ IF is_color_camera'
       THEN \E ok \in BOOLEAN :
              IF ok
              THEN /\ mono_to_color_sdk' = "live"
                   /\ mono_to_color_processor' = "live"
                   /\ calls' = calls \o <<"MonoToColorProcessorSDK",
                                          "create_mono_to_color_processor">>
                   /\ NoRaise("e_writer")
              ELSE /\ mono_to_color_sdk' = "None"
                   /\ mono_to_color_processor' = "None"
                   /\ calls' = Append(calls, "MonoToColorProcessorSDK")
                   /\ Raise("SDKError", "unwind")
       ELSE /\ mono_to_color_sdk' = "None"
            /\ mono_to_color_processor' = "None"
            /\ NoRaise("e_writer")
            /\ UNCHANGED calls
    /\ UNCHANGED <<script, cameras, camera, out, interrupts, pollVars,
                   frames_counted, image_data, sink, videoVars>>

\* lines 71-75
EWriter ==
    /\ script = "export" /\ pc = "e_writer"
    /\ calls' = Append(calls, "cv2.VideoWriter")
    /\ NoRaise("e_trigger")
    /\ UNCHANGED <<script, cameras, camera, out, interrupts, pollVars, exportVars, videoVars>>

\* lines 78-79: the trigger may raise; frames_counted = 0
ETrigger ==
    /\ script = "export" /\ pc = "e_trigger"
    /\ calls' = Append(calls, "camera.issue_software_trigger")
    /\ \E ok \in BOOLEAN :
          IF ok THEN /\ frames_counted' = 0
                     /\ NoRaise("e_while")
                ELSE /\ UNCHANGED frames_counted
                     /\ Raise("TLCameraError", "unwind")
    /\ UNCHANGED <<script, cameras, camera, out, interrupts, pollVars, image_data,
                   is_color_camera, mono_to_color_sdk, mono_to_color_processor,
                   sink, videoVars>>

\* line 81
LoopCondition_le == frames_counted <= NUMBER_OF_IMAGES

LoopCondition == frames_counted < NUMBER_OF_IMAGES

\* lines 81-82: the loop condition holds; poll
EPoll ==
    /\ script = "export" /\ pc = "e_while"
    /\ LoopCondition
    /\ \E f \in PollResults :
          /\ frame' = f
          /\ delivered' = IF IsNone(f) THEN delivered ELSE delivered + 1
    /\ polls' = polls + 1
    /\ NoRaise("e_check")
    /\ UNCHANGED <<script, cameras, camera, calls, out, interrupts, exportVars, videoVars>>

\* line 81: the loop condition fails; the try block ends and finally runs
ELoopExit ==
    /\ script = "export" /\ pc = "e_while"
    /\ ~LoopCondition
    /\ NoRaise("e_disarm")
    /\ UNCHANGED <<script, cameras, camera, calls, out, interrupts, pollVars,
                   exportVars, videoVars>>

\* a null poll that is skipped instead of raising
ECheck_skipNull ==
    /\ script = "export" /\ pc = "e_check"
    /\ IF IsNone(frame)
       THEN /\ NoRaise("e_while")
            /\ UNCHANGED frames_counted
       ELSE /\ frames_counted' = frames_counted + 1
            /\ NoRaise("e_convert")
    /\ UNCHANGED <<script, cameras, camera, calls, out, interrupts, pollVars, image_data,
                   is_color_camera, mono_to_color_sdk, mono_to_color_processor,
                   sink, videoVars>>

\* lines 83-86: a null frame raises TimeoutError (finally runs next);
\* otherwise frames_counted += 1
ECheck ==
    /\ script = "export" /\ pc = "e_check"
    /\ IF IsNone(frame)
       THEN /\ Raise("TimeoutError", "e_disarm")
            /\ UNCHANGED frames_counted
       ELSE /\ frames_counted' = frames_counted + 1
            /\ NoRaise("e_convert")
    /\ UNCHANGED <<script, cameras, camera, calls, out, interrupts, pollVars, image_data,
                   is_color_camera, mono_to_color_sdk, mono_to_color_processor,
                   sink, videoVars>>

\* lines 88-95
EConvert ==
    /\ script = "export" /\ pc = "e_convert"
    /\ image_data' = IF is_color_camera
                     THEN TransformTo24(frame)
                     ELSE ScaleTo8bpp(frame, cameras[1].bit_depth)
    /\ NoRaise("e_write")
    /\ UNCHANGED <<script, cameras, camera, calls, out, interrupts, pollVars,
                   frames_counted, is_color_camera, mono_to_color_sdk,
                   mono_to_color_processor, sink, videoVars>>

\* a write that stores the image twice
EWrite_twice ==
    /\ script = "export" /\ pc = "e_write"
    /\ sink' = sink \o <<image_data, image_data>>
    /\ NoRaise("e_while")
    /\ UNCHANGED <<script, cameras, camera, calls, out, interrupts, pollVars,
                   frames_counted, image_data, is_color_camera, mono_to_color_sdk,
                   mono_to_color_processor, videoVars>>

\* line 97
EWrite ==
    /\ script = "export" /\ pc = "e_write"
    /\ sink' = Append(sink, image_data)
    /\ NoRaise("e_while")
    /\ UNCHANGED <<script, cameras, camera, calls, out, interrupts, pollVars,
                   frames_counted, image_data, is_color_camera, mono_to_color_sdk,
                   mono_to_color_processor, videoVars>>

\* a finally block that releases the sink first and disarms second
EDisarm_releaseFirst ==
    /\ script = "export" /\ pc = "e_disarm"
    /\ calls' = Append(calls, "mp4_video.release")
    /\ NoRaise("e_release")
    /\ UNCHANGED <<script, cameras, camera, out, interrupts, pollVars, exportVars, videoVars>>

\* line 99: camera.disarm(); when it raises, the rest of the finally block is
\* skipped and its exception replaces the one in flight
EDisarm ==
    /\ script = "export" /\ pc = "e_disarm"
    /\ calls' = Append(calls, "camera.disarm")
    /\ \E ok \in BOOLEAN :
          IF ok THEN /\ camera' = "disarmed"
                     /\ NoRaise("e_release")
                ELSE /\ UNCHANGED camera
                     /\ Raise("DisarmError", "unwind")
    /\ UNCHANGED <<script, cameras, out, interrupts, pollVars, exportVars, videoVars>>

\* lines 100-103: mp4_video.release(), not guarded either; then the test
\* of is_color_camera
ERelease ==
    /\ script = "export" /\ pc = "e_release"
    /\ calls' = Append(calls, "mp4_video.release")
    /\ \E ok \in BOOLEAN :
          IF ok THEN NoRaise(IF is_color_camera THEN "e_dispose_processor"
                                                   ELSE "e_finally_end")
                ELSE Raise("ReleaseError", "unwind")
    /\ UNCHANGED <<script, cameras, camera, out, interrupts, pollVars, exportVars, videoVars>>

\* lines 104-107: an Exception of dispose() is caught and printed
EDisposeProcessor ==
    /\ script = "export" /\ pc = "e_dispose_processor"
    /\ calls' = Append(calls, "mono_to_color_processor.dispose")
    /\ \E ok \in BOOLEAN :
          IF ok THEN /\ mono_to_color_processor' = "disposed"
                     /\ UNCHANGED out
                ELSE /\ UNCHANGED mono_to_color_processor
                     /\ out' = Append(out, "Unable to dispose mono to color processor")
    /\ NoRaise("e_dispose_sdk")
    /\ UNCHANGED <<script, cameras, camera, interrupts, pollVars, frames_counted,
                   image_data, is_color_camera, mono_to_color_sdk, sink, videoVars>>

\* lines 108-111
EDisposeSdk ==
    /\ script = "export" /\ pc = "e_dispose_sdk"
    /\ calls' = Append(calls, "mono_to_color_sdk.dispose")
    /\ \E ok \in BOOLEAN :
          IF ok THEN /\ mono_to_color_sdk' = "disposed"
                     /\ UNCHANGED out
                ELSE /\ UNCHANGED mono_to_color_sdk
                     /\ out' = Append(out, "Unable to dispose mono to color sdk")
    /\ NoRaise("e_finally_end")
    /\ UNCHANGED <<script, cameras, camera, interrupts, pollVars, frames_counted,
                   image_data, is_color_camera, mono_to_color_processor, sink, videoVars>>

\* line 111, end of the finally block: every statement of it has run; the
\* exception in flight, if any, goes on
EFinallyEnd ==
    /\ script = "export" /\ pc = "e_finally_end"
    /\ NoRaise("unwind")
    /\ UNCHANGED <<script, cameras, camera, calls, out, interrupts, pollVars,
                   exportVars, videoVars>>

----------------------------------------------------------------------------
(* video.py *)

\* a discovery that prints but does not return when no camera is found
VDiscover_noReturn ==
    /\ script = "video" /\ pc = "discover"
    /\ calls' = calls \o <<"TLCameraSDK", "sdk.discover_available_cameras">>
    /\ out' = IF Len(cameras) = 0 THEN Append(out, "No cameras detected.") ELSE out
    /\ NoRaise("v_open")
    /\ UNCHANGED <<script, cameras, camera, interrupts, pollVars, exportVars, videoVars>>

\* lines 36-40: open the SDK, discover; print and return when no camera is found
VDiscover ==
    /\ script = "video" /\ pc = "discover"
    /\ calls' = calls \o <<"TLCameraSDK", "sdk.discover_available_cameras">>
    /\ IF Len(cameras) = 0
       THEN /\ out' = Append(out, "No cameras detected.")
            /\ NoRaise("unwind")
       ELSE /\ UNCHANGED out
            /\ NoRaise("v_open")
    /\ UNCHANGED <<script, cameras, camera, interrupts, pollVars, exportVars, videoVars>>

\* lines 42-48: open the camera and set its properties
VOpen ==
    /\ script = "video" /\ pc = "v_open"
    /\ IF Len(cameras) = 0
       THEN /\ Raise("IndexError", "unwind")
            /\ UNCHANGED <<calls, camera>>
       ELSE /\ calls' = Append(calls, "sdk.open_camera")
            /\ camera' = "open"
            /\ NoRaise("v_arm")
    /\ UNCHANGED <<script, cameras, out, interrupts, pollVars, exportVars, videoVars>>

\* line 50
VArm ==
    /\ script = "video" /\ pc = "v_arm"
    /\ calls' = Append(calls, "camera.arm")
    /\ camera' = "armed"
    /\ NoRaise("v_trigger")
    /\ UNCHANGED <<script, cameras, out, interrupts, pollVars, exportVars, videoVars>>

\* lines 51-55: the trigger may raise; first_frame = None
VTrigger ==
    /\ script = "video" /\ pc = "v_trigger"
    /\ calls' = Append(calls, "camera.issue_software_trigger")
    /\ \E ok \in BOOLEAN :
          IF ok THEN /\ first_frame' = NoImage
                     /\ out' = Append(out, "Starting live view with colorbar...")
                     /\ NoRaise("v_first")
                ELSE /\ UNCHANGED <<first_frame, out>>
                     /\ Raise("TLCameraError", "unwind")
    /\ UNCHANGED <<script, cameras, camera, interrupts, pollVars, exportVars, shown>>

\* lines 57-58: poll until a first frame arrives; this loop is outside the try
VFirstFrame ==
    /\ script = "video" /\ pc = "v_first"
    /\ polls < MaxPolls
    /\ \E f \in PollResults :
          /\ first_frame' = get_camera_frame(f)
          /\ delivered' = IF IsNone(f) THEN delivered ELSE delivered + 1
          /\ NoRaise(IF IsNone(f) THEN "v_first" ELSE "v_plot")
    /\ polls' = polls + 1
    /\ UNCHANGED <<script, cameras, camera, calls, out, interrupts, frame, exportVars, shown>>

\* lines 61-67: set up the plot; imshow puts first_frame on the display
VPlot ==
    /\ script = "video" /\ pc = "v_plot"
    /\ calls' = calls \o <<"plt.subplots", "ax.imshow">>
    /\ shown' = Append(shown, first_frame)
    /\ NoRaise("v_poll")
    /\ UNCHANGED <<script, cameras, camera, out, interrupts, pollVars, exportVars, first_frame>>

\* lines 70-71: while True: frame = get_camera_frame(camera)
VPoll ==
    /\ script = "video" /\ pc = "v_poll"
    /\ polls < MaxPolls
    /\ \E f \in PollResults :
          /\ frame' = get_camera_frame(f)
          /\ delivered' = IF IsNone(f) THEN delivered ELSE delivered + 1
    /\ polls' = polls + 1
    /\ NoRaise("v_branch")
    /\ UNCHANGED <<script, cameras, camera, calls, out, interrupts, exportVars, videoVars>>

\* a null frame that ends the display loop
VBranch_breakOnNull ==
    /\ script = "video" /\ pc = "v_branch"
    /\ IF ~IsNone(frame)
       THEN /\ shown' = Append(shown, frame)
            /\ NoRaise("v_poll")
            /\ UNCHANGED out
       ELSE /\ out' = Append(out, "No frame received.")
            /\ NoRaise("v_disarm")
            /\ UNCHANGED shown
    /\ UNCHANGED <<script, cameras, camera, calls, interrupts, pollVars, exportVars, first_frame>>

\* a display update that is done twice
VBranch_showTwice ==
    /\ script = "video" /\ pc = "v_branch"
    /\ IF ~IsNone(frame)
       THEN /\ shown' = shown \o <<frame, frame>>
            /\ UNCHANGED out
       ELSE /\ out' = Append(out, "No frame received.")
            /\ UNCHANGED shown
    /\ NoRaise("v_poll")
    /\ UNCHANGED <<script, cameras, camera, calls, interrupts, pollVars, exportVars, first_frame>>

\* lines 72-77: a frame goes to the display (set_data, draw, flush_events);
\* no frame is a printed line; either way the loop goes on
VBranch ==
    /\ script = "video" /\ pc = "v_branch"
    /\ IF ~IsNone(frame)
       THEN /\ shown' = Append(shown, frame)
            /\ UNCHANGED out
       ELSE /\ out' = Append(out, "No frame received.")
            /\ UNCHANGED shown
    /\ NoRaise("v_poll")
    /\ UNCHANGED <<script, cameras, camera, calls, interrupts, pollVars, exportVars, first_frame>>

\* lines 78-79: except KeyboardInterrupt
VExcept ==
    /\ script = "video" /\ pc = "v_except"
    /\ out' = Append(out, "Interrupted by user.")
    /\ error' = "None"
    /\ pc' = "v_disarm"
    /\ UNCHANGED <<script, cameras, camera, calls, raised, interrupts, pollVars,
                   exportVars, videoVars>>

\* line 81: camera.disarm(); when it raises, the rest of the finally block
\* is skipped
VDisarm ==
    /\ script = "video" /\ pc = "v_disarm"
    /\ calls' = Append(calls, "camera.disarm")
    /\ \E ok \in BOOLEAN :
          IF ok THEN /\ camera' = "disarmed"
                     /\ NoRaise("v_close")
                ELSE /\ UNCHANGED camera
                     /\ Raise("DisarmError", "unwind")
    /\ UNCHANGED <<script, cameras, out, interrupts, pollVars, exportVars, videoVars>>

\* lines 82-84; the finally block ends and the exception in flight, if any,
\* goes on
VClose ==
    /\ script = "video" /\ pc = "v_close"
    /\ out' = Append(out, "Camera disarmed. Exiting...")
    /\ calls' = calls \o <<"plt.ioff", "plt.close">>
    /\ NoRaise("unwind")
    /\ UNCHANGED <<script, cameras, camera, interrupts, pollVars, exportVars, videoVars>>

----------------------------------------------------------------------------
(* Both scripts *)

\* the positions inside a try block, inside video.py's except clause, and
\* inside a finally block
ExportTry == {"e_while", "e_check", "e_convert", "e_write"}
ExportFinally == {"e_disarm", "e_release", "e_dispose_processor", "e_dispose_sdk",
                  "e_finally_end"}
VideoTry == {"v_poll", "v_branch"}
VideoFinally == {"v_disarm", "v_close"}

\* where a KeyboardInterrupt raised at position p takes the script:
\* the export script has no except clause, so from inside its try the finally
\* block runs with the interrupt in flight; video.py catches it inside its
\* try; anywhere else (before the try, and inside a finally block, where
\* `except Exception` does not catch it) it leaves through the with blocks
InterruptTarget(p) ==
    IF script = "export" /\ p \in ExportTry THEN "e_disarm"
    ELSE IF script = "video" /\ p \in VideoTry THEN "v_except"
    ELSE IF script = "video" /\ p = "v_except" THEN "v_disarm"
    ELSE "unwind"

\* the user presses Ctrl-C while the script is at any position
KeyboardInterrupt ==
    /\ pc \notin {"unwind", "exited"}
    /\ interrupts < MaxInterrupts
    /\ interrupts' = interrupts + 1
    /\ Raise("KeyboardInterrupt", InterruptTarget(pc))
    /\ UNCHANGED <<script, cameras, camera, calls, out, pollVars, exportVars, videoVars>>

\* the with blocks end: the camera handle, when one was opened, and the SDK
\* are disposed; the exception in flight reaches the top level
Unwind ==
    /\ pc = "unwind"
    /\ calls' = calls \o (IF camera = "None" THEN <<>> ELSE <<"camera.dispose">>)
                      \o <<"sdk.dispose">>
    /\ camera' = IF camera = "None" THEN "None" ELSE "disposed"
    /\ NoRaise("exited")
    /\ UNCHANGED <<script, cameras, out, interrupts, pollVars, exportVars, videoVars>>

\* the statements of the scripts
Step ==
    \/ EDiscover \/ EOpen \/ EArm \/ ESetup \/ EWriter \/ ETrigger
    \/ EPoll \/ ELoopExit \/ ECheck \/ EConvert \/ EWrite
    \/ EDisarm \/ ERelease \/ EDisposeProcessor \/ EDisposeSdk \/ EFinallyEnd
    \/ VDiscover \/ VOpen \/ VArm \/ VTrigger \/ VFirstFrame \/ VPlot
    \/ VPoll \/ VBranch \/ VExcept \/ VDisarm \/ VClose
    \/ Unwind

Next == Step \/ KeyboardInterrupt

Spec == Init /\ [][Next]_vars

\* the interpreter always runs the next statement
FairSpec == Spec /\ WF_vars(Step)

----------------------------------------------------------------------------
(* The conversion of line 95 on its own: the export script stands at the    *)
(* conversion with a monochrome camera of bit depth B and a polled frame    *)
(* of one sample V, for every B of BitDepths and every V of 0 .. 2^B - 1.    *)

PixInit ==
    /\ script = "export"
    /\ \E b \in BitDepths : \E v \in 0..(Pow2(b) - 1) :
          /\ cameras = <<[camera_sensor_type |-> "MONOCHROME", bit_depth |-> b,
                          scene |-> <<v>>]>>
          /\ frame = [frame_count |-> 1, image_buffer |-> <<v>>]
    /\ camera = "armed"
    /\ pc = "e_convert"
    /\ calls = <<"TLCameraSDK", "sdk.discover_available_cameras", "sdk.open_camera",
                 "camera.arm", "cv2.VideoWriter", "camera.issue_software_trigger">>
    /\ out = <<>>
    /\ error = "None"
    /\ raised = <<>>
    /\ interrupts = 0
    /\ polls = 1
    /\ delivered = 1
    /\ first_frame = NoImage
    /\ frames_counted = 1
    /\ image_data = NoImage
    /\ is_color_camera = FALSE
    /\ mono_to_color_sdk = "None"
    /\ mono_to_color_processor = "None"
    /\ sink = <<>>
    /\ shown = <<>>

PixSpec == PixInit /\ [][EConvert]_vars

----------------------------------------------------------------------------
(* Properties *)

Has(c) == \E i \in 1..Len(calls) : calls[i] = c

HasRaised(e) == \E i \in 1..Len(raised) : raised[i] = e

HasPrinted(m) == \E i \in 1..Len(out) : out[i] = m

IsPrefix(s, t) == Len(s) <= Len(t) /\ \A i \in 1..Len(s) : s[i] = t[i]

IsTeardownCall(c) ==
    c \in {"camera.disarm", "mp4_video.release",
           "mono_to_color_processor.dispose", "mono_to_color_sdk.dispose"}

\* the teardown calls made so far, in the order they were made
TeardownLog == SelectSeq(calls, IsTeardownCall)

\* the teardown sequence of the export script: the two dispose calls are
\* made only when the colour processor and its SDK exist
TeardownSequence ==
    <<"camera.disarm", "mp4_video.release">>
    \o (IF mono_to_color_processor # "None"
        THEN <<"mono_to_color_processor.dispose", "mono_to_color_sdk.dispose">>
        ELSE <<>>)

C2_DisarmedBeforeExit ==
    (pc = "exited" /\ Has("camera.arm")) => Has("camera.disarm")

\* the k-th frame of the camera, converted as the export script converts it
\* (the monochrome samples by the definition of the claim: floor(V / 2^(B-8)))
ExportImage(k) ==
    IF is_color_camera
    THEN [frame_count |-> k, op |-> "transform_to_24", channels |-> 3,
          pixels |-> cameras[1].scene]
    ELSE [frame_count |-> k, op |-> "shift", channels |-> 1,
          pixels |-> [i \in 1..Len(cameras[1].scene) |->
                         cameras[1].scene[i] \div Pow2(cameras[1].bit_depth - 8)]]

\* C3: in the export script, a loop that ends without error has polled
\* NUMBER_OF_IMAGES times, got a frame each time and written exactly
\* NUMBER_OF_IMAGES frames; the loop never goes on after a null poll; once a
\* null poll has raised TimeoutError, the sink holds exactly the frames of
\* the successful polls before it, fewer than NUMBER_OF_IMAGES, and keeps
\* them to the end of the run.
C3_BoundedLoop ==
    script = "export" =>
        /\ (pc = "e_disarm" /\ error = "None") =>
              /\ polls = NUMBER_OF_IMAGES
              /\ delivered = NUMBER_OF_IMAGES
              /\ Len(sink) = NUMBER_OF_IMAGES
        /\ (pc = "e_while" /\ delivered = NUMBER_OF_IMAGES) =>
              (Len(sink) = NUMBER_OF_IMAGES /\ ~ENABLED EPoll)
        /\ pc \in {"e_while", "e_convert", "e_write"} => polls = delivered
        /\ (pc = "e_check" /\ IsNone(frame)) =>
              (polls = delivered + 1 /\ polls <= NUMBER_OF_IMAGES)
        /\ HasRaised("TimeoutError") =>
              /\ pc \notin ExportTry
              /\ polls = delivered + 1
              /\ Len(sink) = delivered
              /\ Len(sink) < NUMBER_OF_IMAGES
              /\ \A k \in 1..Len(sink) : sink[k] = ExportImage(k)

\* C3 witness: a timeout after two written frames, at the end of the run
C3_Witness ==
    /\ script = "export" /\ pc = "exited"
    /\ error = "TimeoutError"
    /\ Len(sink) = 2 /\ delivered = 2 /\ polls = 3

\* C4: in video.py's display loop, a statement that follows a null poll
\* prints a line, changes neither the display nor anything else and goes back
\* to polling; the display changes only when a polled frame (or the first
\* frame) is not null.
C4_NullPollContinues ==
    [][ /\ (script = "video" /\ pc = "v_branch" /\ IsNone(frame)
            /\ interrupts' = interrupts) =>
              /\ pc' = "v_poll"
              /\ out' = Append(out, "No frame received.")
              /\ shown' = shown
              /\ calls' = calls
              /\ error' = error
        /\ shown' # shown =>
              \/ pc = "v_plot" /\ ~IsNone(first_frame) /\ shown' = Append(shown, first_frame)
              \/ pc = "v_branch" /\ ~IsNone(frame) /\ shown' = Append(shown, frame)
      ]_vars

\* C4 witness: the display loop polls again after two null polls
C4_Witness ==
    /\ script = "video" /\ pc = "v_branch"
    /\ Len(SelectSeq(out, LAMBDA m : m = "No frame received.")) = 2
    /\ Len(shown) = 1

\* C5: in both scripts, when discovery returned no camera, no camera is
\* opened or armed, no sink is opened, nothing is polled, the script never
\* gets past the statement that uses the list, and the run ends with the
\* message printed (the export script with the IndexError of cameras[0]).
C5_NoCameraAborts ==
    Len(cameras) = 0 =>
        /\ pc \in {"discover", "e_open", "unwind", "exited"}
        /\ camera = "None"
        /\ ~Has("sdk.open_camera") /\ ~Has("camera.arm")
        /\ ~Has("cv2.VideoWriter") /\ ~Has("plt.subplots") /\ ~Has("ax.imshow")
        /\ polls = 0 /\ sink = <<>> /\ shown = <<>>
        /\ (pc = "exited" /\ interrupts = 0) =>
              IF script = "export"
              THEN error = "IndexError" /\ HasPrinted("Error: no cameras detected!")
              ELSE HasPrinted("No cameras detected.")

\* C5 witness: a run without cameras has ended
C5_Witness ==
    /\ Len(cameras) = 0 /\ pc = "exited" /\ interrupts = 0

\* C6: in the export script, when the finally block was entered and the run
\* has ended without an interrupt, every teardown step was attempted, and a
\* TimeoutError of the loop is the error the run ends with.
C6_TeardownFailuresContained ==
    (script = "export" /\ pc = "exited" /\ interrupts = 0 /\ Has("camera.disarm")) =>
        /\ TeardownLog = TeardownSequence
        /\ HasRaised("TimeoutError") => error = "TimeoutError"

ProcessorConstructed == Has("create_mono_to_color_processor")

IsBayer == Len(cameras) > 0 /\ cameras[1].camera_sensor_type = "BAYER"

\* C7, as stated: in every session, of either script, that has reached its
\* acquisition loop, a colour processor has been constructed if and only if
\* the camera's sensor type is Bayer.
C7_ProcessorIffBayerInEverySession ==
    pc \in ExportTry \cup VideoTry \cup {"v_first"} =>
        (ProcessorConstructed <=> IsBayer)

\* C7, amended: in every session of the export script a colour processor is
\* constructed if and only if the sensor type is Bayer (once the set-up of
\* lines 56-68 has run); with a monochrome sensor no colour processor or
\* colour SDK exists at any point and none is disposed; a processor is
\* disposed only when one was constructed.
C7_ProcessorIffBayer ==
    script = "export" =>
        /\ ProcessorConstructed => IsBayer
        /\ (mono_to_color_processor # "None") <=> ProcessorConstructed
        /\ pc \in {"e_writer", "e_trigger"} \cup ExportTry \cup ExportFinally =>
              (ProcessorConstructed <=> IsBayer)
        /\ ~IsBayer =>
              /\ mono_to_color_processor = "None" /\ mono_to_color_sdk = "None"
              /\ ~Has("MonoToColorProcessorSDK")
              /\ ~Has("mono_to_color_processor.dispose")
              /\ ~Has("mono_to_color_sdk.dispose")
        /\ Has("mono_to_color_processor.dispose") => ProcessorConstructed

\* C7 witness: a monochrome export session has gone through its whole
\* teardown without a colour processor
C7_Witness ==
    /\ script = "export" /\ pc = "exited"
    /\ Len(cameras) > 0 /\ ~IsBayer
    /\ Len(sink) = 1
    /\ TeardownLog = <<"camera.disarm", "mp4_video.release">>

\* the k-th frame of the camera as video.py puts it on the display
VideoImage(k) ==
    [frame_count |-> k, op |-> "normalize", channels |-> 1,
     pixels |-> normalize_image(cameras[1].scene)]

\* C8: in both scripts the k-th image given to the sink is the conversion of
\* the k-th successfully polled frame, each frame is given to the sink at most
\* once, at most one polled frame has not reached the sink yet, and a poll is
\* issued only when none is waiting.
C8_InOrderExactlyOnce ==
    LET log == IF script = "export" THEN sink ELSE shown
    IN  /\ \A k \in 1..Len(log) :
              log[k] = IF script = "export" THEN ExportImage(k) ELSE VideoImage(k)
        /\ Len(log) <= delivered
        /\ delivered <= Len(log) + 1
        /\ pc \in {"e_while", "v_first", "v_poll"} => delivered = Len(log)
        /\ (script = "export" /\ pc = "e_while") => frames_counted = Len(sink)
        /\ (script = "export" /\ pc = "e_write") =>
              /\ frames_counted = Len(sink) + 1
              /\ image_data = ExportImage(Len(sink) + 1)

\* C8 witness: three frames are in the sink and a fourth has been polled
C8_Witness ==
    /\ script = "export" /\ pc = "e_check"
    /\ ~IsNone(frame) /\ frame.frame_count = 4
    /\ Len(sink) = 3

\* C9: in the export script with a monochrome sensor of bit depth B, every
\* sample V of the polled frame is converted to floor(V / 2^(B-8)): the low
\* B-8 bits are dropped without rounding and the result lies in 0 .. 255.
C9_ShiftTruncates ==
    (script = "export" /\ pc = "e_write" /\ ~is_color_camera) =>
        LET B == cameras[1].bit_depth
        IN  /\ Len(image_data.pixels) = Len(frame.image_buffer)
            /\ \A i \in 1..Len(frame.image_buffer) :
                  LET V == frame.image_buffer[i]
                      R == image_data.pixels[i]
                  IN  /\ R = V \div Pow2(B - 8)
                      /\ R * Pow2(B - 8) <= V
                      /\ V < (R + 1) * Pow2(B - 8)
                      /\ R \in 0..255

\* C9 witness: the largest 16-bit sample has been converted to 255
C9_Witness ==
    /\ pc = "e_write"
    /\ cameras[1].bit_depth = 16
    /\ frame.image_buffer = <<65535>>
    /\ image_data.pixels = <<255>>

\* C10: the export script issues at most NUMBER_OF_IMAGES polls, and a run
\* that is in the acquisition loop always reaches the finally block and then
\* the end of the run.
C10_LoopTerminates ==
    /\ [](script = "export" => polls <= NUMBER_OF_IMAGES)
    /\ (script = "export" /\ pc \in ExportTry) ~> (pc = "e_disarm")
    /\ (script = "export" /\ pc \in ExportTry) ~> (pc = "exited")

\* C10 witness: a run that polled NUMBER_OF_IMAGES times has ended
C10_Witness ==
    /\ script = "export" /\ pc = "exited"
    /\ polls = NUMBER_OF_IMAGES /\ Len(sink) = NUMBER_OF_IMAGES

====
